---------------------------- MODULE Spec2Model ----------------------------
(***************************************************************************)
(* A model of knittingpattern/Dumper.py: ContentDumper and JSONDumper.     *)
(*                                                                         *)
(* Text is a sequence of one-character strings.  A ContentDumper holds a   *)
(* write-strategy (on_dump); every save method hands it a file-like object *)
(* and lets it write.  A JSONDumper's write-strategy calls the object      *)
(* provider and json.dump()s what it returned.                             *)
(***************************************************************************)
EXTENDS Integers, Sequences, FiniteSets, TLC

(***************************************************************************)
(* Bounds of the model.                                                    *)
(***************************************************************************)
MaxCalls == 2
MaxChunks == 2
MaxInt == 2
MaxItems == 2

(***************************************************************************)
(* Generic helpers on sequences.                                           *)
(***************************************************************************)
Prefix(s, n) == SubSeq(s, 1, n)

Drop(s, n) == SubSeq(s, n + 1, Len(s))

RECURSIVE Flatten(_)
Flatten(ss) == IF ss = <<>> THEN <<>> ELSE Head(ss) \o Flatten(Tail(ss))

SeqsUpTo(S, n) == UNION { [1..k -> S] : k \in 0..n }

(***************************************************************************)
(* Failures.  NoErr is "no exception"; the others are the exceptions the   *)
(* model distinguishes.  An exception keeps its identity while it          *)
(* propagates.                                                             *)
(***************************************************************************)
NoErr == "NoErr"
WriteError == "WriteError"          \* raised by a ContentDumper's on_dump
ProviderError == "ProviderError"    \* raised by a JSONDumper's on_dump
TypeError == "TypeError"            \* raised by json.dump: not serializable

(***************************************************************************)
(* Python values handed to json.dump.  Every value is a record of the same *)
(* shape; t is the Python type.  A dict is its sequence of (key, value)    *)
(* pairs in insertion order, keys pairwise different.                      *)
(***************************************************************************)
Val(t, n, s, items) == [t |-> t, n |-> n, s |-> s, items |-> items]
PyNone == Val("null", 0, <<>>, <<>>)
PyBool(b) == Val("bool", IF b THEN 1 ELSE 0, <<>>, <<>>)
PyInt(n) == Val("int", n, <<>>, <<>>)
PyStr(s) == Val("str", 0, s, <<>>)
PyList(items) == Val("list", 0, <<>>, items)
PyTuple(items) == Val("tuple", 0, <<>>, items)
PyDict(pairs) == Val("dict", 0, <<>>, pairs)
PyObject == Val("object", 0, <<>>, <<>>)     \* an instance json cannot encode

(***************************************************************************)
(* json.dump(obj, file) with the default arguments: the text it writes to  *)
(* the file, chunk after chunk, and the exception that ends it.  The       *)
(* encoder is a generator, so what was produced before a value that cannot *)
(* be encoded has already been written when TypeError is raised.           *)
(***************************************************************************)
Digit(d) == <<"0", "1", "2", "3", "4", "5", "6", "7", "8", "9">>[d + 1]

RECURSIVE EncodeNat(_)
EncodeNat(n) == IF n < 10 THEN <<Digit(n)>> ELSE EncodeNat(n \div 10) \o <<Digit(n % 10)>>

EncodeInt(n) == IF n < 0 THEN <<"-">> \o EncodeNat(-n) ELSE EncodeNat(n)

EscapeChar(c) ==
    IF c = "\"" THEN <<"\\", "\"">>
    ELSE IF c = "\\" THEN <<"\\", "\\">>
    ELSE <<c>>

RECURSIVE EscapeChars(_)
EscapeChars(s) == IF s = <<>> THEN <<>> ELSE EscapeChar(Head(s)) \o EscapeChars(Tail(s))

EncodeStr(s) == <<"\"">> \o EscapeChars(s) \o <<"\"">>

Enc(out, err) == [out |-> out, err |-> err]

\* The text of a dict key: str keys as they are, int, bool and None keys
\* converted to their JSON spelling; any other key is a TypeError.
KeyEncodable(k) == k.t \in {"str", "int", "bool", "null"}

KeyText(k) ==
    CASE k.t = "str" -> k.s
      [] k.t = "int" -> EncodeInt(k.n)
      [] k.t = "bool" -> IF k.n = 1 THEN <<"t", "r", "u", "e">> ELSE <<"f", "a", "l", "s", "e">>
      [] k.t = "null" -> <<"n", "u", "l", "l">>

RECURSIVE Encode(_), EncodeItems(_, _), EncodeMembers(_, _)
Encode(x) ==
    CASE x.t = "null" -> Enc(<<"n", "u", "l", "l">>, NoErr)
      [] x.t = "bool" -> Enc(IF x.n = 1 THEN <<"t", "r", "u", "e">>
                                         ELSE <<"f", "a", "l", "s", "e">>, NoErr)
      [] x.t = "int" -> Enc(EncodeInt(x.n), NoErr)
      [] x.t = "str" -> Enc(EncodeStr(x.s), NoErr)
      [] x.t \in {"list", "tuple"} ->
            IF x.items = <<>> THEN Enc(<<"[", "]">>, NoErr)
            ELSE LET r == EncodeItems(x.items, 1)
                 IN  IF r.err # NoErr THEN Enc(<<"[">> \o r.out, r.err)
                     ELSE Enc(<<"[">> \o r.out \o <<"]">>, NoErr)
      [] x.t = "dict" ->
            IF x.items = <<>> THEN Enc(<<"{", "}">>, NoErr)
            ELSE LET r == EncodeMembers(x.items, 1)
                 IN  IF r.err # NoErr THEN Enc(<<"{">> \o r.out, r.err)
                     ELSE Enc(<<"{">> \o r.out \o <<"}">>, NoErr)
      [] OTHER -> Enc(<<>>, TypeError)

EncodeItems(items, i) ==
    IF i > Len(items) THEN Enc(<<>>, NoErr)
    ELSE LET sep == IF i = 1 THEN <<>> ELSE <<",", " ">>
             e == Encode(items[i])
         IN  IF e.err # NoErr THEN Enc(sep \o e.out, e.err)
             ELSE LET r == EncodeItems(items, i + 1)
                  IN  Enc(sep \o e.out \o r.out, r.err)

EncodeMembers(pairs, i) ==
    IF i > Len(pairs) THEN Enc(<<>>, NoErr)
    ELSE LET sep == IF i = 1 THEN <<>> ELSE <<",", " ">>
             k == pairs[i][1]
         IN  IF ~KeyEncodable(k) THEN Enc(<<>>, TypeError)
             ELSE LET head == sep \o EncodeStr(KeyText(k)) \o <<":", " ">>
                      e == Encode(pairs[i][2])
                  IN  IF e.err # NoErr THEN Enc(head \o e.out, e.err)
                      ELSE LET r == EncodeMembers(pairs, i + 1)
                           IN  Enc(head \o e.out \o r.out, r.err)

(***************************************************************************)
(* Decoding, which the round-trip property is stated with: json.loads(text)*)
(* as a recursive-descent parser.  Parse results carry ok (FALSE: not      *)
(* valid JSON), the value and the index of the next unread character.      *)
(***************************************************************************)
Parsed(ok, v, i) == [ok |-> ok, v |-> v, i |-> i]
ParseFail == Parsed(FALSE, PyNone, 0)

At(txt, i) == IF i >= 1 /\ i <= Len(txt) THEN txt[i] ELSE "EOF"

IsDigit(c) == c \in {"0", "1", "2", "3", "4", "5", "6", "7", "8", "9"}

DigitValue(c) == CHOOSE d \in 0..9 : Digit(d) = c

RECURSIVE SkipWs(_, _)
SkipWs(txt, i) == IF At(txt, i) = " " THEN SkipWs(txt, i + 1) ELSE i

HasWord(txt, i, w) ==
    /\ i + Len(w) - 1 <= Len(txt)
    /\ SubSeq(txt, i, i + Len(w) - 1) = w

\* The digits from index i on, accumulated into acc.
RECURSIVE ParseDigits(_, _, _)
ParseDigits(txt, i, acc) ==
    IF IsDigit(At(txt, i)) THEN ParseDigits(txt, i + 1, 10 * acc + DigitValue(txt[i]))
    ELSE [n |-> acc, i |-> i]

\* The characters of a string from index i (after the opening quote) on.
RECURSIVE ParseChars(_, _, _)
ParseChars(txt, i, acc) ==
    LET c == At(txt, i)
    IN  CASE c = "EOF" -> ParseFail
          [] c = "\"" -> Parsed(TRUE, PyStr(acc), i + 1)
          [] c = "\\" ->
                IF At(txt, i + 1) \in {"\"", "\\"}
                THEN ParseChars(txt, i + 2, Append(acc, txt[i + 1]))
                ELSE ParseFail
          [] OTHER -> ParseChars(txt, i + 1, Append(acc, c))

\* A later pair with an equal key replaces the earlier pair's value.
RECURSIVE PutPair(_, _, _)
PutPair(pairs, k, v) ==
    IF pairs = <<>> THEN << <<k, v>> >>
    ELSE IF Head(pairs)[1] = k THEN << <<k, v>> >> \o Tail(pairs)
    ELSE <<Head(pairs)>> \o PutPair(Tail(pairs), k, v)

RECURSIVE ParseValue(_, _), ParseItems(_, _, _), ParseMembers(_, _, _)
ParseValue(txt, i0) ==
    LET i == SkipWs(txt, i0)
        c == At(txt, i)
    IN  CASE c = "n" /\ HasWord(txt, i, <<"n", "u", "l", "l">>) -> Parsed(TRUE, PyNone, i + 4)
          [] c = "t" /\ HasWord(txt, i, <<"t", "r", "u", "e">>) -> Parsed(TRUE, PyBool(TRUE), i + 4)
          [] c = "f" /\ HasWord(txt, i, <<"f", "a", "l", "s", "e">>) ->
                Parsed(TRUE, PyBool(FALSE), i + 5)
          [] c = "\"" -> ParseChars(txt, i + 1, <<>>)
          [] IsDigit(c) ->
                LET d == ParseDigits(txt, i, 0) IN Parsed(TRUE, PyInt(d.n), d.i)
          [] c = "-" /\ IsDigit(At(txt, i + 1)) ->
                LET d == ParseDigits(txt, i + 1, 0) IN Parsed(TRUE, PyInt(-d.n), d.i)
          [] c = "[" ->
                IF At(txt, SkipWs(txt, i + 1)) = "]"
                THEN Parsed(TRUE, PyList(<<>>), SkipWs(txt, i + 1) + 1)
                ELSE ParseItems(txt, i + 1, <<>>)
          [] c = "{" ->
                IF At(txt, SkipWs(txt, i + 1)) = "}"
                THEN Parsed(TRUE, PyDict(<<>>), SkipWs(txt, i + 1) + 1)
                ELSE ParseMembers(txt, i + 1, <<>>)
          [] OTHER -> ParseFail

ParseItems(txt, i, acc) ==
    LET e == ParseValue(txt, i)
    IN  IF ~e.ok THEN ParseFail
        ELSE LET j == SkipWs(txt, e.i)
                 c == At(txt, j)
             IN  CASE c = "," -> ParseItems(txt, j + 1, Append(acc, e.v))
                   [] c = "]" -> Parsed(TRUE, PyList(Append(acc, e.v)), j + 1)
                   [] OTHER -> ParseFail

ParseMembers(txt, i0, acc) ==
    LET i == SkipWs(txt, i0)
    IN  IF At(txt, i) # "\"" THEN ParseFail
        ELSE LET k == ParseChars(txt, i + 1, <<>>)
             IN  IF ~k.ok \/ At(txt, SkipWs(txt, k.i)) # ":" THEN ParseFail
                 ELSE LET e == ParseValue(txt, SkipWs(txt, k.i) + 1)
                      IN  IF ~e.ok THEN ParseFail
                          ELSE LET j == SkipWs(txt, e.i)
                                   c == At(txt, j)
                                   next == PutPair(acc, k.v, e.v)
                               IN  CASE c = "," -> ParseMembers(txt, j + 1, next)
                                     [] c = "}" -> Parsed(TRUE, PyDict(next), j + 1)
                                     [] OTHER -> ParseFail

\* json.loads: the whole text is one JSON value, with blanks around it.
Decode(txt) ==
    LET r == ParseValue(txt, 1)
    IN  IF r.ok /\ SkipWs(txt, r.i) = Len(txt) + 1 THEN r ELSE ParseFail


(***************************************************************************)
(* Which values are JSON's own: null, booleans, numbers, strings, arrays   *)
(* of them and objects with string keys.  Python tuples and dicts with     *)
(* other keys can be dumped but are not.                                   *)
(***************************************************************************)
RECURSIVE IsJSONCompatible(_)
IsJSONCompatible(x) ==
    CASE x.t \in {"null", "bool", "int", "str"} -> TRUE
      [] x.t = "list" -> \A i \in 1..Len(x.items) : IsJSONCompatible(x.items[i])
      [] x.t = "dict" ->
            \A i \in 1..Len(x.items) :
                x.items[i][1].t = "str" /\ IsJSONCompatible(x.items[i][2])
      [] OTHER -> FALSE

(***************************************************************************)
(* File-like objects.  A StringIO keeps its text in value; an object on a  *)
(* real file keeps in pending what was written and has not reached the     *)
(* disk yet (the texts of the model are far shorter than the io buffer, so *)
(* nothing reaches the disk before the object is closed).  ref tells who   *)
(* still holds the object: the caller, or nobody.                          *)
(***************************************************************************)
FileObj(id, kind, name, value, pending, pos, closed, delete, ref) ==
    [id |-> id, kind |-> kind, name |-> name, value |-> value, pending |-> pending,
     pos |-> pos, closed |-> closed, delete |-> delete, ref |-> ref]

NoFileObj == FileObj(0, "none", "", <<>>, <<>>, 0, TRUE, FALSE, "none")

\* StringIO()
StringIO(id) == FileObj(id, "StringIO", "", <<>>, <<>>, 0, FALSE, FALSE, "caller")

\* file.write(text): a StringIO overwrites from its position on and grows
\* as needed; a file opened here is only ever written from start to end.
Write(f, text) ==
    IF f.kind = "StringIO"
    THEN [f EXCEPT !.value = Prefix(f.value, f.pos) \o text
                              \o Drop(f.value, f.pos + Len(text)),
                   !.pos = f.pos + Len(text)]
    ELSE [f EXCEPT !.pending = f.pending \o text, !.pos = f.pos + Len(text)]

\* file.seek(pos)
Seek(f, pos) == [f EXCEPT !.pos = pos]

\* file.read(): the text from the position to the end
Read(f) == Drop(f.value, f.pos)

(***************************************************************************)
(* The disk: for every path whether a file is there, and its content.      *)
(***************************************************************************)
OnDisk(exists, data) == [exists |-> exists, data |-> data]
NoFile == OnDisk(FALSE, <<>>)

OldText == <<"o", "l", "d">>

BadPath == "/no/such/dir/p"
UserPaths == {"p1", "p2"}
TempName(n) == "/tmp/tmp" \o ToString(n)
TempPaths == { TempName(n) : n \in 1..MaxCalls }
Paths == UserPaths \cup TempPaths

\* The streams a caller hands to file(): a StringIO holding OldText, at a
\* position inside the text or at its end.
CallerStreams ==
    { FileObj(0 - p, "StringIO", "", OldText, <<>>, p, FALSE, FALSE, "caller") : p \in {1, Len(OldText)} }

(***************************************************************************)
(* The dumper instances.  d1 is ContentDumper(on_dump), d2 is              *)
(* JSONDumper(on_dump).                                                    *)
(***************************************************************************)
ContentDumpers == {"d1"}
JSONDumpers == {"d2"}
Dumpers == ContentDumpers \cup JSONDumpers

\* A write-strategy: it writes its chunks in order and, when raiseAt is not
\* NoRaise, raises WriteError after raiseAt of them.
NoRaise == 0 - 1
ChunkTexts == << <<"k">>, <<"p", "1">>, <<"\"">>, <<"k", "2">> >>
Strategy(kind, chunks, raiseAt) == [kind |-> kind, chunks |-> chunks, raiseAt |-> raiseAt]
Strategies ==
    { Strategy("on_dump", Prefix(ChunkTexts, MaxChunks), r) : r \in {NoRaise} \cup 0..MaxChunks }

\* What one invocation of an object provider does: raise, or return v.
Outcome(raises, v) == [raises |-> raises, v |-> v]
NoOutcome == Outcome(TRUE, PyNone)

VARIABLES
    constructed,    \* what every instance's __init__ was given
    dump_to_file,   \* ContentDumper.__dump_to_file of every instance
    dump_to_json,   \* JSONDumper.__dump_to_json: the outcomes the provider can produce
    disk,           \* the files on disk
    open_files,     \* the file objects on real files that are not closed
    created,        \* how many file-like objects the dumpers have created
    count,          \* per instance: calls and invocations so far
    provided,       \* per instance: the value its provider returned last
    last,           \* the call that ended last
    calls           \* the number of calls made

vars == <<constructed, dump_to_file, dump_to_json, disk, open_files, created, count, provided, last, calls>>

(***************************************************************************)
(* One invocation of a write-strategy: the text it wrote to the file it    *)
(* was given, the exception that ended it, whether the object provider was *)
(* invoked and what it did (got), whether json.dump was called and on      *)
(* which value (obj).                                                      *)
(***************************************************************************)
Run(out, err, provider, got, encode, obj) ==
    [out |-> out, err |-> err, provider |-> provider, got |-> got,
     encode |-> encode, obj |-> obj]

NoRun == Run(<<>>, NoErr, 0, NoOutcome, 0, PyNone)

\* on_dump(file) of a ContentDumper's user
on_dump(s) ==
    LET n == IF s.raiseAt = NoRaise THEN Len(s.chunks) ELSE s.raiseAt
    IN  Run(Flatten(Prefix(s.chunks, n)),
            IF s.raiseAt = NoRaise THEN NoErr ELSE WriteError,
            0, NoOutcome, 0, PyNone)

\* A bug JSONDumper.object could have: the value of an earlier call is kept
\* and handed out again.
object_cached(d, o) == IF count[d].provider > 0 THEN provided[d] ELSE o

\* JSONDumper.object(): self.__dump_to_json(), the provider doing o now
object_result(d, o) == o

\* A bug _dump_to_file could have: file.write(obj), which writes a str as it
\* is and not as a JSON string.
json_dump_raw(x) == IF x.t = "str" THEN Enc(x.s, NoErr) ELSE Encode(x)

\* json.dump(obj, file)
json_dump(x) == Encode(x)

\* JSONDumper._dump_to_file(file): json.dump(self.object(), file)
_dump_to_file(d, o) ==
    LET got == object_result(d, o)
    IN  IF got.raises THEN Run(<<>>, ProviderError, 1, got, 0, PyNone)
        ELSE LET e == json_dump(got.v)
             IN  Run(e.out, e.err, 1, got, 1, got.v)

\* self.__dump_to_file(file)
Dump(d, o) ==
    IF dump_to_file[d].kind = "on_dump" THEN on_dump(dump_to_file[d])
    ELSE _dump_to_file(d, o)

\* A bug: the exception of the write-strategy is caught and dropped.
Swallowed(run) == NoErr

\* The exception a save method lets through from self.__dump_to_file(file):
\* no save method has a handler, so it is the strategy's own.
Raised(run) == run.err

\* How often a save method invokes self.__dump_to_file while it runs.
Invocations(run) == 1

(***************************************************************************)
(* Files on disk.                                                          *)
(***************************************************************************)
\* A bug: open(path, "a"), which keeps what the file held.
OpenAppend(dsk, p) == [dsk EXCEPT ![p] = OnDisk(TRUE, @.data)]

\* open(path, "w") and NamedTemporaryFile("w+"): the file is created empty,
\* or emptied.
Open(dsk, p) == [dsk EXCEPT ![p] = OnDisk(TRUE, <<>>)]

\* A bug: the temporary file is kept whatever delete says.
CloseKeeping(dsk, f) == [dsk EXCEPT ![f.name] = OnDisk(TRUE, @.data \o f.pending)]

\* What closing file object f does to the disk: the pending text is
\* written, and a NamedTemporaryFile made with delete=True is unlinked.
Close(dsk, f) ==
    IF f.delete THEN [dsk EXCEPT ![f.name] = NoFile]
    ELSE [dsk EXCEPT ![f.name] = OnDisk(TRUE, @.data \o f.pending)]

Closed(f) == [f EXCEPT !.closed = TRUE, !.pending = <<>>, !.ref = "none"]

\* A bug: the file is closed only after a write that did not raise.
ExitOnSuccess(f, err) == IF err = NoErr THEN Closed(f) ELSE f

\* The exit of "with open(path, "w") as file": the file is closed however
\* the block ended.
WithExit(f, err) == Closed(f)

\* A bug: a new StringIO whatever the caller gave.
TargetFresh(given, id) == StringIO(id)

\* file(): "if file is None: file = StringIO()"
Target(given, id) == IF given = NoFileObj THEN StringIO(id) ELSE given

\* A bug: a save method stores something else as its strategy.
Rebound(d) == [dump_to_file EXCEPT ![d] = Strategy(@.kind, <<>>, @.raiseAt)]

\* The strategies the instances hold after a call on d: no method assigns
\* self.__dump_to_file but __init__.
Held(d) == dump_to_file

(***************************************************************************)
(* What every call leaves behind: the record of the call, the counters.    *)
(***************************************************************************)
Counters(m, f, ob, p, e, pr, du) ==
    [materialize |-> m, unopened |-> f, object |-> ob, provider |-> p, encode |-> e,
     provider_raised |-> pr, dump |-> du]

\* What the call hands back or leaves: the text (string), the value (object),
\* the file-like object it wrote to as it is when the call ends, the stream
\* the caller gave, the path of the file written.
Ret(text, value, stream, given, path) ==
    [text |-> text, value |-> value, stream |-> stream, given |-> given, path |-> path]

Ends(op, d, o, run, dumps, raised, ret) ==
    /\ calls' = calls + 1
    /\ last' = [op |-> op, d |-> d, outcome |-> o, run |-> run, dumps |-> dumps,
                raised |-> raised, ret |-> ret,
                touched |-> { q \in Paths : disk'[q] # disk[q] }]
    /\ count' = [count EXCEPT ![d] =
            Counters(@.materialize + (IF op = "object" THEN 0 ELSE 1),
                     @.unopened + (IF op # "object" /\ dumps = 0 THEN 1 ELSE 0),
                     @.object + (IF op = "object" THEN 1 ELSE 0),
                     @.provider + run.provider,
                     @.encode + run.encode,
                     @.provider_raised
                        + (IF op # "object" /\ run.provider = 1 /\ run.got.raises THEN 1 ELSE 0),
                     @.dump + dumps)]
    /\ provided' = IF run.provider = 1 THEN [provided EXCEPT ![d] = run.got] ELSE provided
    /\ dump_to_file' = Held(d)
    /\ UNCHANGED <<constructed, dump_to_json>>

Unopened == "FileNotFoundError"


(***************************************************************************)
(* The save methods.  d is the instance, o what its object provider does   *)
(* when it is invoked during the call (only a JSONDumper has one).         *)
(***************************************************************************)
\* ContentDumper.string()
string(d, o) ==
    LET f == StringIO(created + 1)
        run == Dump(d, o)
        written == Write(f, run.out)
        err == Raised(run)
        text == IF err = NoErr THEN Read(Seek(written, 0)) ELSE <<>>
    IN  /\ calls < MaxCalls
        /\ created' = created + 1
        /\ UNCHANGED <<disk, open_files>>
        /\ Ends("string", d, o, run, Invocations(run), err,
                Ret(text, PyNone, written, NoFileObj, ""))

\* ContentDumper.file(file=None); given = NoFileObj stands for None
file(d, o, given) ==
    LET f == Target(given, created + 1)
        run == Dump(d, o)
        written == Write(f, run.out)
        err == Raised(run)
    IN  /\ calls < MaxCalls
        /\ created' = IF f.id = created + 1 THEN created + 1 ELSE created
        /\ UNCHANGED <<disk, open_files>>
        /\ Ends("file", d, o, run, Invocations(run), err,
                Ret(<<>>, PyNone, written, given, ""))

\* ContentDumper.path(path)
path(d, o, p) ==
    /\ calls < MaxCalls
    /\ IF p \notin Paths
       THEN \* open() raises: the strategy is never invoked
            /\ UNCHANGED <<disk, open_files, created>>
            /\ Ends("path", d, o, NoRun, 0, Unopened, Ret(<<>>, PyNone, NoFileObj, NoFileObj, p))
       ELSE LET f == FileObj(created + 1, "file", p, <<>>, <<>>, 0, FALSE, FALSE, "none")
                opened == Open(disk, p)
                run == Dump(d, o)
                written == Write(f, run.out)
                err == Raised(run)
                left == WithExit(written, err)
            IN  /\ created' = created + 1
                /\ disk' = IF left.closed THEN Close(opened, written) ELSE opened
                /\ open_files' = IF left.closed THEN open_files ELSE open_files \cup {left}
                /\ Ends("path", d, o, run, Invocations(run), err,
                        Ret(<<>>, PyNone, left, NoFileObj, p))

\* ContentDumper._temporary_file(delete): the file object, the disk and the
\* run of the strategy when the method returns or raises.
_temporary_file(d, o, delete) ==
    LET name == TempName(created + 1)
        f == FileObj(created + 1, "file", name, <<>>, <<>>, 0, FALSE, delete, "none")
        run == Dump(d, o)
    IN  [file |-> Write(f, run.out), disk |-> Open(disk, name), run |-> run]

\* ContentDumper.temporary_path().  The method closes nothing: the file
\* object is dropped on return, and it is the runtime that closes an object
\* nobody holds, at once (finalized) or later (see finalize).
temporary_path(d, o, finalized) ==
    LET t == _temporary_file(d, o, FALSE)
        err == Raised(t.run)
        left == IF err = NoErr /\ finalized THEN Closed(t.file) ELSE t.file
    IN  /\ calls < MaxCalls
        /\ created' = created + 1
        /\ disk' = IF left.closed THEN Close(t.disk, t.file) ELSE t.disk
        /\ open_files' = IF left.closed THEN open_files ELSE open_files \cup {left}
        /\ Ends("temporary_path", d, o, t.run, Invocations(t.run), err,
                Ret(<<>>, PyNone, left, NoFileObj, t.file.name))

\* ContentDumper.temporary_file(delete_when_closed=True)
temporary_file(d, o, delete_when_closed) ==
    LET t == _temporary_file(d, o, delete_when_closed)
        err == Raised(t.run)
        left == IF err = NoErr THEN [t.file EXCEPT !.ref = "caller"] ELSE t.file
    IN  /\ calls < MaxCalls
        /\ created' = created + 1
        /\ disk' = t.disk
        /\ open_files' = open_files \cup {left}
        /\ Ends("temporary_file", d, o, t.run, Invocations(t.run), err,
                Ret(<<>>, PyNone, left, NoFileObj, t.file.name))

\* JSONDumper.object()
object(d, o) ==
    LET got == object_result(d, o)
        run == Run(<<>>, IF got.raises THEN ProviderError ELSE NoErr, 1, got, 0, PyNone)
    IN  /\ calls < MaxCalls
        /\ UNCHANGED <<disk, open_files, created>>
        /\ Ends("object", d, o, run, 0, run.err,
                Ret(<<>>, IF got.raises THEN PyNone ELSE got.v, NoFileObj, NoFileObj, ""))

(***************************************************************************)
(* What happens to the file objects the calls left open.                   *)
(***************************************************************************)
Closes(op, f) ==
    /\ open_files' = open_files \ {f}
    /\ disk' = Close(disk, f)
    /\ last' = [op |-> op, d |-> last.d, outcome |-> NoOutcome, run |-> NoRun, dumps |-> 0,
                raised |-> NoErr, ret |-> Ret(<<>>, PyNone, Closed(f), f, f.name),
                touched |-> { q \in Paths : disk'[q] # disk[q] }]
    /\ UNCHANGED <<constructed, dump_to_file, dump_to_json, created, count, provided, calls>>

\* The caller closes the file object temporary_file() returned.
close(f) == f.ref = "caller" /\ Closes("close", f)

\* The runtime closes a file object nobody holds any more.
finalize(f) == f.ref = "none" /\ Closes("finalize", f)

(***************************************************************************)
(* The values an object provider returns in the model.                     *)
(***************************************************************************)
Key(c) == PyStr(<<c>>)

\* {"a": 1, "b": [1, 2, 3]}
Example ==
    PyDict(<< <<Key("a"), PyInt(1)>>, <<Key("b"), PyList(<<PyInt(1), PyInt(2), PyInt(3)>>)>> >>)

Ints == { PyInt(n) : n \in (0 - 1)..MaxInt } \cup {PyInt(12)}
Strs == { PyStr(s) : s \in SeqsUpTo({"a", "\"", "\\"}, 1) } \cup {PyStr(<<"a", " ", "b">>)}
Atoms == {PyNone, PyBool(TRUE), PyBool(FALSE)} \cup Ints \cup Strs
Lists == { PyList(s) : s \in SeqsUpTo(Atoms, MaxItems) }
Dicts ==
    {PyDict(<<>>)}
    \cup { PyDict(<< <<Key("a"), v>> >>) : v \in Atoms }
    \cup { PyDict(<< <<Key("b"), v>>, <<Key("\""), w>> >>) : v, w \in Atoms }
Flat == Atoms \cup Lists \cup Dicts
Nested ==
    { PyList(<<c, PyInt(1)>>) : c \in Lists \cup Dicts }
    \cup { PyDict(<< <<Key("a"), c>> >>) : c \in Lists \cup Dicts }
\* Values json.dump takes that are not JSON's own
Foreign ==
    { PyTuple(s) : s \in SeqsUpTo({PyInt(1), PyNone}, 2) }
    \cup { PyDict(<< <<k, PyInt(1)>> >>) : k \in {PyInt(1), PyBool(TRUE), PyNone} }
    \cup { PyList(<<PyTuple(<<PyInt(1)>>)>>) }
Values == Flat \cup Nested \cup Foreign \cup {Example}

\* What the provider of the JSONDumper can do in a call of the dumper's
\* life: return a value JSON has, return one json.dump rejects part-way, or
\* raise.
Outcomes ==
    { Outcome(FALSE, PyDict(<< <<Key("a"), PyList(<<PyInt(1), PyNone>>)>> >>)),
      Outcome(FALSE, PyList(<<PyInt(1), PyObject>>)),
      Outcome(TRUE, PyNone) }

\* The state after the constructors: on_dumps are the strategies d1 may be
\* given, providers what the provider given to d2 may be.
Constructed(on_dumps, providers) ==
    /\ dump_to_file \in
          [Dumpers -> on_dumps \cup {Strategy("_dump_to_file", <<>>, NoRaise)}]
    /\ \A d \in ContentDumpers : dump_to_file[d].kind = "on_dump"
    /\ \A d \in JSONDumpers : dump_to_file[d].kind = "_dump_to_file"
    /\ \E provider \in providers :
          dump_to_json = [d \in Dumpers |-> IF d \in JSONDumpers THEN provider ELSE {NoOutcome}]
    /\ disk = [p \in Paths |-> IF p = "p1" THEN OnDisk(TRUE, OldText) ELSE NoFile]
    /\ open_files = {}
    /\ created = 0
    /\ count = [d \in Dumpers |-> Counters(0, 0, 0, 0, 0, 0, 0)]
    /\ provided = [d \in Dumpers |-> NoOutcome]
    /\ last = [op |-> "init", d |-> "d1", outcome |-> NoOutcome, run |-> NoRun, dumps |-> 0,
               raised |-> NoErr, ret |-> Ret(<<>>, PyNone, NoFileObj, NoFileObj, ""),
               touched |-> {}]
    /\ constructed = [file |-> dump_to_file, json |-> dump_to_json]
    /\ calls = 0

Init == Constructed(Strategies, {Outcomes})

Next ==
    \/ \E d \in Dumpers : \E o \in dump_to_json[d] : string(d, o)
    \/ \E d \in Dumpers : \E o \in dump_to_json[d], given \in CallerStreams \cup {NoFileObj} :
          file(d, o, given)
    \/ \E d \in Dumpers : \E o \in dump_to_json[d], p \in UserPaths \cup {BadPath} : path(d, o, p)
    \/ \E d \in Dumpers : \E o \in dump_to_json[d], finalized \in BOOLEAN :
          temporary_path(d, o, finalized)
    \/ \E d \in Dumpers : \E o \in dump_to_json[d], delete \in BOOLEAN : temporary_file(d, o, delete)
    \/ \E d \in JSONDumpers : \E o \in dump_to_json[d] : object(d, o)
    \/ \E f \in open_files : close(f)
    \/ \E f \in open_files : finalize(f)

Spec == Init /\ [][Next]_vars

(***************************************************************************)
(* The JSONDumper alone, its provider returning one and the same value of  *)
(* Values in every call.                                                   *)
(***************************************************************************)
InitJSON ==
    Constructed({Strategy("on_dump", <<>>, NoRaise)}, { {Outcome(FALSE, x)} : x \in Values })

NextJSON ==
    \/ \E d \in JSONDumpers : \E o \in dump_to_json[d] : object(d, o)
    \/ \E d \in JSONDumpers : \E o \in dump_to_json[d] : string(d, o)

SpecJSON == InitJSON /\ [][NextJSON]_vars


(***************************************************************************)
(* Vocabulary of the properties.                                           *)
(***************************************************************************)
Materializations == {"string", "file", "path", "temporary_path", "temporary_file"}

\* The text string() returns on instance d when its provider does o.
StringText(d, o) == Read(Seek(Write(StringIO(0), Dump(d, o).out), 0))

\* The whole content of the destination of the call that ended last: the
\* string, the stream's text, the file at the path on disk; for the handle
\* temporary_file returned, the file as that handle reads it.
DestinationText ==
    CASE last.op = "string" -> last.ret.text
      [] last.op = "file" -> last.ret.stream.value
      [] last.op \in {"path", "temporary_path"} -> disk[last.ret.path].data
      [] last.op = "temporary_file" -> disk[last.ret.path].data \o last.ret.stream.pending
      [] OTHER -> <<>>

\* The call that ended last opened a file and this is its file object.
OpenedFile == last.ret.stream.kind = "file"

StillOpen(f) == \E g \in open_files : g.id = f.id

(***************************************************************************)
(* C1.  The file object path(p) opens is closed when path(p) ends, after a *)
(* write-strategy that returned and after one that raised part-way; in the *)
(* second case the caller receives the exception the strategy raised.      *)
(***************************************************************************)
C1_PathClosesItsFile ==
    last.op = "path" /\ OpenedFile =>
        /\ last.ret.stream.closed
        /\ ~StillOpen(last.ret.stream)
        /\ last.run.err # NoErr => last.raised = last.run.err

C1_Witness ==
    /\ last.op = "path" /\ OpenedFile
    /\ last.run.err = WriteError /\ last.run.out # <<>>
    /\ last.ret.stream.closed /\ last.raised = WriteError

(***************************************************************************)
(* C2.  temporary_path() returns with the file object it created closed,   *)
(* all it wrote on disk and the file present; and string, file, path and   *)
(* temporary_path return with no file they opened still open.              *)
(***************************************************************************)
C2_HandleReleasedOnReturn ==
    /\ last.op = "temporary_path" /\ last.raised = NoErr =>
          /\ last.ret.stream.closed
          /\ disk[last.ret.path].exists
          /\ disk[last.ret.path].data = last.run.out
    /\ last.op \in Materializations \ {"temporary_file"} /\ last.raised = NoErr =>
          ~StillOpen(last.ret.stream)

(***************************************************************************)
(* C3.  For a deterministic write-strategy every save method that returns  *)
(* leaves a destination whose whole content is what string() returns, the  *)
(* concatenation of what the strategy writes: the new buffer of file(),    *)
(* the file at p after path(p), the file temporary_path() names, the file  *)
(* behind the handle of temporary_file().                                  *)
(***************************************************************************)
C3_ContentEqualsString ==
    /\ last.op \in Materializations
    /\ last.raised = NoErr
    /\ last.ret.given = NoFileObj
    => /\ DestinationText = StringText(last.d, last.outcome)
       /\ DestinationText = last.run.out

(***************************************************************************)
(* C4.  file(stream) with a stream of the caller returns that very stream, *)
(* open, positioned right after what was written; the text was written     *)
(* from the position the stream had on entry, what was before it is kept,  *)
(* and reading the text takes going back to that position.                 *)
(***************************************************************************)
C4_CallerStreamKept ==
    last.op = "file" /\ last.ret.given # NoFileObj =>
        LET given == last.ret.given
            stream == last.ret.stream
            n == Len(last.run.out)
        IN  /\ stream.id = given.id
            /\ ~stream.closed
            /\ stream.pos = given.pos + n
            /\ Prefix(stream.value, given.pos) = Prefix(given.value, given.pos)
            /\ SubSeq(stream.value, given.pos + 1, given.pos + n) = last.run.out
            /\ n > 0 => Read(stream) # Read(Seek(stream, given.pos))

C4_Witness ==
    /\ last.op = "file" /\ last.ret.given # NoFileObj /\ last.raised = NoErr
    /\ last.ret.given.pos > 0 /\ last.ret.given.pos < Len(last.ret.given.value)
    /\ last.run.out # <<>>

(***************************************************************************)
(* C5.  temporary_file(delete) returns an open handle positioned at the    *)
(* end of what was written, whose name is the path of the file.  The file  *)
(* is on disk as long as the handle is open.  Closing the handle removes   *)
(* the file when delete is true, and leaves it with the content string()   *)
(* returns when delete is false.                                           *)
(***************************************************************************)
C5_TemporaryFileHandle ==
    /\ last.op = "temporary_file" /\ last.raised = NoErr =>
          LET h == last.ret.stream
          IN  /\ h \in open_files /\ ~h.closed /\ h.ref = "caller"
              /\ h.pos = Len(last.run.out)
              /\ h.name = last.ret.path
              /\ disk[h.name].data \o h.pending = StringText(last.d, last.outcome)
    /\ \A h \in open_files :
          /\ disk[h.name].exists
          /\ h.pos = Len(disk[h.name].data \o h.pending)
    /\ last.op = "close" =>
          LET h == last.ret.given
          IN  IF h.delete THEN ~disk[h.name].exists
              ELSE /\ disk[h.name].exists
                   /\ Len(disk[h.name].data) = h.pos
                   /\ Drop(disk[h.name].data, h.pos - Len(h.pending)) = h.pending

C5_Witness ==
    /\ last.op = "close"
    /\ last.ret.given.delete
    /\ last.ret.given.pending # <<>>
    /\ ~disk[last.ret.given.name].exists

(***************************************************************************)
(* C6, as stated.  For a JSONDumper every call of a save method invokes    *)
(* the object provider exactly once and encodes exactly once, the value    *)
(* the provider returned in that call; the provider invocations are as     *)
(* many as the save calls plus the object() calls.                         *)
(***************************************************************************)
C6_OneProviderCallOneEncode ==
    \A d \in JSONDumpers :
        /\ count[d].provider = count[d].materialize + count[d].object
        /\ count[d].encode = count[d].materialize
        /\ last.d = d /\ last.op \in Materializations =>
              /\ last.run.provider = 1
              /\ last.run.encode = 1
              /\ last.run.obj = last.outcome.v

(***************************************************************************)
(* C6, amended.  For a JSONDumper every call of a save method that gets to *)
(* its write (its file, if it has one, could be opened) invokes the object *)
(* provider exactly once, afresh, and encodes at most once: exactly once,  *)
(* the value returned in that call, when the provider returns, and not at  *)
(* all when the provider raises.  The provider invocations are as many as  *)
(* those save calls plus the object() calls.                               *)
(***************************************************************************)
C6_OneProviderCallPerWrite ==
    \A d \in JSONDumpers :
        /\ count[d].provider = (count[d].materialize - count[d].unopened) + count[d].object
        /\ count[d].encode
              = (count[d].materialize - count[d].unopened) - count[d].provider_raised
        /\ last.d = d /\ last.op \in Materializations =>
              IF last.dumps = 0 THEN last.run.provider = 0 /\ last.run.encode = 0
              ELSE /\ last.run.provider = 1
                   /\ last.run.got = last.outcome
                   /\ IF last.outcome.raises THEN last.run.encode = 0
                      ELSE last.run.encode = 1 /\ last.run.obj = last.outcome.v
        /\ last.d = d /\ last.op = "object" => last.run.got = last.outcome

C6_Witness ==
    /\ last.d \in JSONDumpers /\ last.op = "string"
    /\ ~last.outcome.raises /\ last.run.encode = 1
    /\ count[last.d].materialize = 2
    /\ count[last.d].provider_raised = 1
    /\ provided[last.d] = last.outcome

(***************************************************************************)
(* C7.  When the write-strategy fails in a save method (the provider of a  *)
(* JSONDumper raises, or its object cannot be encoded), the caller gets    *)
(* that failure itself, the strategy was invoked once in the call, and the *)
(* call does not return normally.                                          *)
(***************************************************************************)
C7_FailurePropagates ==
    last.op \in Materializations /\ last.run.err # NoErr =>
        /\ last.raised = last.run.err
        /\ last.dumps = 1
        /\ last.d \in JSONDumpers =>
              /\ last.outcome.raises => last.raised = ProviderError
              /\ ~last.outcome.raises => last.raised = TypeError

C7_Witness ==
    /\ last.op = "temporary_file" /\ last.d \in JSONDumpers
    /\ last.run.err = TypeError /\ last.run.out # <<>>
    /\ last.raised = TypeError

(***************************************************************************)
(* C8, as stated.  What an instance holds never changes; every call of a   *)
(* save method invokes the instance's write-strategy exactly once and      *)
(* touches no file but its own destination; and a deterministic strategy   *)
(* yields the same content whatever calls were made before, on this        *)
(* instance or on the other.                                               *)
(***************************************************************************)
C8_EveryCallDumpsOnce ==
    /\ dump_to_file = constructed.file
    /\ dump_to_json = constructed.json
    /\ last.op \in Materializations =>
          /\ last.dumps = 1
          /\ last.touched \subseteq {last.ret.path}
          /\ last.d \in ContentDumpers =>
                LET s == constructed.file[last.d]
                    n == IF s.raiseAt = NoRaise THEN Len(s.chunks) ELSE s.raiseAt
                    text == Flatten(Prefix(s.chunks, n))
                IN  /\ last.run.out = text
                    /\ last.raised = NoErr /\ last.op = "string" => last.ret.text = text
                    /\ last.op = "file" /\ last.ret.given = NoFileObj =>
                          last.ret.stream.value = text
                    /\ last.op = "path" => disk[last.ret.path].data = text

(***************************************************************************)
(* C8, amended.  As stated, but a call invokes the write-strategy exactly  *)
(* once only when it could open its destination: path(p) on a path that    *)
(* cannot be opened fails before the strategy is invoked, touches no file  *)
(* and invokes it not at all.                                              *)
(***************************************************************************)
C8_EveryOpenedCallDumpsOnce ==
    /\ dump_to_file = constructed.file
    /\ dump_to_json = constructed.json
    /\ last.op = "path" /\ ~OpenedFile =>
          last.dumps = 0 /\ last.touched = {} /\ last.raised = Unopened
    /\ last.op \in Materializations /\ ~(last.op = "path" /\ ~OpenedFile) =>
          /\ last.dumps = 1
          /\ last.touched \subseteq {last.ret.path}
          /\ last.d \in ContentDumpers =>
                LET s == constructed.file[last.d]
                    n == IF s.raiseAt = NoRaise THEN Len(s.chunks) ELSE s.raiseAt
                    text == Flatten(Prefix(s.chunks, n))
                IN  /\ last.run.out = text
                    /\ last.raised = NoErr /\ last.op = "string" => last.ret.text = text
                    /\ last.op = "file" /\ last.ret.given = NoFileObj =>
                          last.ret.stream.value = text
                    /\ last.op = "path" => disk[last.ret.path].data = text

C8_Witness ==
    /\ calls = MaxCalls
    /\ last.d \in ContentDumpers /\ last.op = "path" /\ OpenedFile
    /\ last.raised = NoErr /\ last.run.out # <<>>
    /\ \E d \in JSONDumpers : count[d].materialize > 0 /\ count[d].dump > 0

(***************************************************************************)
(* C9.  When the provider of a JSONDumper returns a value x JSON has,      *)
(* object() returns x itself and string() returns valid JSON text that     *)
(* decodes to a value equal to x.                                          *)
(***************************************************************************)
C9_RoundTrip ==
    /\ last.d \in JSONDumpers
    /\ ~last.outcome.raises
    /\ IsJSONCompatible(last.outcome.v)
    => /\ last.op = "object" => last.raised = NoErr /\ last.ret.value = last.outcome.v
       /\ last.op = "string" =>
             /\ last.raised = NoErr
             /\ Decode(last.ret.text).ok
             /\ Decode(last.ret.text).v = last.outcome.v

\* '{"a": 1, "b": [1, 2, 3]}'
ExampleText ==
    <<"{", "\"", "a", "\"", ":", " ", "1", ",", " ", "\"", "b", "\"", ":", " ",
      "[", "1", ",", " ", "2", ",", " ", "3", "]", "}">>

C9_Witness ==
    /\ last.op = "string" /\ last.d \in JSONDumpers
    /\ last.outcome = Outcome(FALSE, Example)
    /\ last.ret.text = ExampleText
    /\ Decode(last.ret.text).v = Example

(***************************************************************************)
(* C10.  A save method that failed undoes nothing.  After a strategy that  *)
(* raised having written a prefix, path(p) leaves the file at p present,   *)
(* closed, holding that prefix and nothing of what it held before; and     *)
(* temporary_path() and temporary_file(False) leave their temporary file   *)
(* on disk, also once its file object is gone, while the caller got        *)
(* neither path nor handle.                                                *)
(***************************************************************************)
C10_NoRollback ==
    /\ last.op = "path" /\ OpenedFile /\ last.run.err # NoErr =>
          /\ disk[last.ret.path].exists
          /\ disk[last.ret.path].data = last.run.out
          /\ last.ret.stream.closed /\ ~StillOpen(last.ret.stream)
    /\ last.op \in {"temporary_path", "temporary_file"}
          /\ ~last.ret.stream.delete /\ last.run.err # NoErr =>
          /\ disk[last.ret.path].exists
          /\ last.raised # NoErr
          /\ last.ret.stream.ref = "none"
    /\ last.op = "finalize" /\ ~last.ret.given.delete => disk[last.ret.path].exists

C10_Witness ==
    /\ last.op = "path" /\ last.ret.path = "p1" /\ OpenedFile
    /\ last.run.err # NoErr /\ last.run.out # <<>>
    /\ disk["p1"].data = last.run.out /\ last.run.out # OldText

=============================================================================
